---- MODULE Spec2Model ----
(***************************************************************************)
(* PascalVocDataset (src/dataset/pascal.py): the dataset index built at    *)
(* construction (split manifests, cache file of per-image category lists,  *)
(* object list) and the per-object sample masks.                           *)
(*                                                                         *)
(* Text (identifiers, split names, file names, file contents) is a         *)
(* sequence of one-character strings.  A raster is the sequence of its     *)
(* pixels in row-major order, the order in which numpy.where and           *)
(* numpy.unique visit them.                                                *)
(***************************************************************************)
EXTENDS Integers, Sequences, FiniteSets, TLC

\* ---------------------------------------------------------------- bounds
\* Longest total number of manifest lines over the two splits.
MaxIds == 2
\* Pixels per raster of the image-level specification.
NPix == 3
\* Largest area threshold.
MaxThres == 2
\* Longest split name and longest split list of the path specification.
MaxNameLen == 2
MaxSplits == 2

VARIABLES
    args,        \* constructor arguments: split, area_thres, default
    manifest,    \* split name -> lines of ImageSets/Segmentation/<name>.txt
    present,     \* the image / category / mask files that exist
    raster,      \* identifier -> [mask, cats]: the two decoded label rasters
    files,       \* cache file name -> text, for the cache files that exist
    self,        \* the dataset object of the latest construction
    run,         \* what the latest construction did (trace of __init__)
    pair,        \* what _make_img_gt_point_pair returned last
    sample,      \* what __getitem__ returned last
    probe        \* two configurations and their cache file names

vars == <<args, manifest, present, raster, files, self, run, pair, sample, probe>>

\* ------------------------------------------------------------------ text
DQ == "\""
BSL == "\\"
NL == "\n"
TAB == "\t"

\* Code point of the characters that identifiers and split names are made of.
Ord(c) ==
    CASE c = DQ -> 34
      [] c = "_" -> 95
      [] c = "a" -> 97
      [] c = "b" -> 98
      [] c = "q" -> 113
      [] c = "x" -> 120
      [] c = "y" -> 121

RECURSIVE StrLess(_, _)
\* s < t for Python strings: by code point, a proper prefix first.
StrLess(s, t) ==
    IF t = <<>> THEN FALSE
    ELSE IF s = <<>> THEN TRUE
    ELSE IF Head(s) = Head(t) THEN StrLess(Tail(s), Tail(t))
    ELSE Ord(Head(s)) < Ord(Head(t))

RECURSIVE Insert(_, _)
Insert(x, sorted) ==
    IF sorted = <<>> THEN <<x>>
    ELSE IF StrLess(x, Head(sorted)) THEN <<x>> \o sorted
    ELSE <<Head(sorted)>> \o Insert(x, Tail(sorted))

RECURSIVE Sorted(_)
\* list.sort() and numpy.sort on a list of strings.
Sorted(l) ==
    IF l = <<>> THEN <<>> ELSE Insert(Head(l), Sorted(Tail(l)))

RECURSIVE Join(_, _)
\* sep.join(l)
Join(sep, l) ==
    IF l = <<>> THEN <<>>
    ELSE IF Len(l) = 1 THEN l[1]
    ELSE l[1] \o sep \o Join(sep, Tail(l))

Digits == <<"0", "1", "2", "3", "4", "5", "6", "7", "8", "9">>

RECURSIVE NatToStr(_)
NatToStr(n) ==
    IF n < 10 THEN <<Digits[n + 1]>>
    ELSE NatToStr(n \div 10) \o <<Digits[(n % 10) + 1]>>

\* str(n) and json.dumps(n) of an int.
IntToStr(n) ==
    IF n < 0 THEN <<"-">> \o NatToStr(-n) ELSE NatToStr(n)

\* ------------------------------------------------------------ file names
\* The split argument: a str (names holds it alone), or a list of str.
StrArg(name) == [isstr |-> TRUE, names |-> <<name>>]
ListArg(names) == [isstr |-> FALSE, names |-> names]

\* self.split: [split] of a str, the list itself, sorted in place, otherwise.
SplitOf(split) ==
    IF split.isstr THEN split.names ELSE Sorted(split.names)

AreaThStr(area_thres) ==
    IF area_thres # 0
    THEN <<"_", "a", "r", "e", "a", "_", "t", "h", "r", "e", "s", "-">> \o IntToStr(area_thres)
    ELSE <<>>

\* self.obj_list_file, relative to <base_dir>/ImageSets/Segmentation/.
ObjListFile(split, area_thres) ==
    Join(<<"_">>, SplitOf(split))
        \o <<"_", "i", "n", "s", "t", "a", "n", "c", "e", "s">>
        \o AreaThStr(area_thres)
        \o <<".", "t", "x", "t">>

\* --------------------------------------------------------------- results
\* The value an expression returns, or the exception it raises.
Ok(v) == [ok |-> TRUE, val |-> v, exc |-> ""]
Raise(e) == [ok |-> FALSE, val |-> <<>>, exc |-> e]

\* ----------------------------------------------- Instance Index Builder
\* numpy.unique(_mask), as a set; Max picks its last element.
Unique(mask) == {mask[p] : p \in DOMAIN mask}
Max(S) == CHOOSE m \in S : \A x \in S : x <= m

\* n_obj taken as the number of distinct instance ids.
NObjCount(mask) ==
    IF Unique(mask) = {255} THEN Raise("IndexError")
    ELSE Ok(Cardinality(Unique(mask) \ {0, 255}))

\* n_obj: _mask_ids[-2] when the largest value is 255, _mask_ids[-1] otherwise.
\* _mask_ids[-2] of a one-element array raises IndexError.
NObj(mask) ==
    LET mask_ids == Unique(mask) IN
    IF Max(mask_ids) = 255
    THEN IF mask_ids = {255}
         THEN Raise("IndexError")
         ELSE Ok(Max(mask_ids \ {255}))
    ELSE Ok(Max(mask_ids))

RECURSIVE WhereFrom(_, _, _)
WhereFrom(mask, v, p) ==
    IF p > Len(mask) THEN <<>>
    ELSE (IF mask[p] = v THEN <<p>> ELSE <<>>) \o WhereFrom(mask, v, p + 1)

\* numpy.where(_mask == v): the matching pixels, in row-major order.
Where(mask, v) == WhereFrom(mask, v, 1)

\* One pass of the loop over jj: the entry appended to _cat_ids.
\* tmp[0][0] of an empty match raises IndexError.
CatId(mask, cats, area_thres, jj) ==
    LET tmp == Where(mask, jj + 1)
        obj_area == Len(tmp)
    IN  IF obj_area > area_thres
        THEN IF tmp = <<>> THEN Raise("IndexError") ELSE Ok(cats[tmp[1]])
        ELSE Ok(-1)

RECURSIVE CatIdsFrom(_, _, _, _, _, _)
\* The loop over jj in range(n_obj): _cat_ids grows until an entry raises.
CatIdsFrom(mask, cats, area_thres, jj, n_obj, cat_ids) ==
    IF jj >= n_obj THEN Ok(cat_ids)
    ELSE IF ~CatId(mask, cats, area_thres, jj).ok THEN Raise("IndexError")
    ELSE CatIdsFrom(mask, cats, area_thres, jj + 1, n_obj,
                    Append(cat_ids, CatId(mask, cats, area_thres, jj).val))

\* _cat_ids of one image: the Instance Category List.
CatIds(mask, cats, area_thres) ==
    IF ~NObj(mask).ok THEN Raise("IndexError")
    ELSE CatIdsFrom(mask, cats, area_thres, 0, NObj(mask).val, <<>>)

\* ------------------------------------------------------------ cache file
RECURSIVE JoinInts(_)
JoinInts(l) ==
    IF l = <<>> THEN <<>>
    ELSE IF Len(l) = 1 THEN IntToStr(l[1])
    ELSE IntToStr(l[1]) \o <<",", " ">> \o JoinInts(Tail(l))

\* json.dumps of a list of int.
Dumps(l) == <<"[">> \o JoinInts(l) \o <<"]">>

\* '"{:s}": {:s}'.format(id, json.dumps(list)): the identifier is not escaped.
Entry(id, l) == <<DQ>> \o id \o <<DQ, ":", " ">> \o Dumps(l)

RECURSIVE EntriesFrom(_, _, _)
EntriesFrom(ii, im_ids, obj_dict) ==
    IF ii > Len(im_ids) THEN <<>>
    ELSE <<",", NL, TAB>> \o Entry(im_ids[ii], obj_dict[im_ids[ii]])
            \o EntriesFrom(ii + 1, im_ids, obj_dict)

\* Everything the three outfile.write calls write, for a non-empty im_ids.
CacheText(im_ids, obj_dict) ==
    <<"{", NL, TAB>> \o Entry(im_ids[1], obj_dict[im_ids[1]])
        \o EntriesFrom(2, im_ids, obj_dict)
        \o <<NL, "}", NL>>

\* json.load, for the documents whose values are lists of int; every other
\* text is reported as a failure (json.JSONDecodeError for text that is not
\* JSON).
Fail == [ok |-> FALSE, val |-> <<>>, next |-> 0]
At(t, i) == IF i \in 1..Len(t) THEN t[i] ELSE ""
Whitespace == {" ", TAB, NL, "\r"}

RECURSIVE SkipWs(_, _)
SkipWs(t, i) == IF At(t, i) \in Whitespace THEN SkipWs(t, i + 1) ELSE i

RECURSIVE ScanString(_, _, _)
\* The characters after an opening quote, up to the closing one.
ScanString(t, j, acc) ==
    IF j > Len(t) THEN Fail
    ELSE IF t[j] = DQ THEN [ok |-> TRUE, val |-> acc, next |-> j + 1]
    ELSE IF t[j] = BSL
         THEN IF At(t, j + 1) \in {DQ, BSL, "/"}
              THEN ScanString(t, j + 2, Append(acc, t[j + 1]))
              ELSE Fail
    ELSE IF t[j] \in {NL, TAB, "\r"} THEN Fail
    ELSE ScanString(t, j + 1, Append(acc, t[j]))

DigitVal(c) == CHOOSE d \in 0..9 : Digits[d + 1] = c
IsDigit(c) == \E d \in 1..10 : Digits[d] = c

RECURSIVE ScanDigits(_, _, _)
ScanDigits(t, j, acc) ==
    IF IsDigit(At(t, j)) THEN ScanDigits(t, j + 1, 10 * acc + DigitVal(t[j]))
    ELSE [ok |-> TRUE, val |-> acc, next |-> j]

\* 0|[1-9][0-9]*
ScanNat(t, j) ==
    IF At(t, j) = "0" THEN [ok |-> TRUE, val |-> 0, next |-> j + 1]
    ELSE IF IsDigit(At(t, j)) THEN ScanDigits(t, j, 0)
    ELSE Fail

\* A number followed by a fraction or an exponent is no int.
IntOnly(t, neg, n) ==
    IF ~n.ok \/ At(t, n.next) \in {".", "e", "E"} THEN Fail
    ELSE [ok |-> TRUE, val |-> IF neg THEN -n.val ELSE n.val, next |-> n.next]

ScanInt(t, i) ==
    IF At(t, i) = "-" THEN IntOnly(t, TRUE, ScanNat(t, i + 1))
    ELSE IntOnly(t, FALSE, ScanNat(t, i))

RECURSIVE ScanItems(_, _, _)
\* After an item and the whitespace behind it: a comma or the closing bracket.
ItemEnd(t, k, acc) ==
    IF At(t, k) = "," THEN ScanItems(t, SkipWs(t, k + 1), acc)
    ELSE IF At(t, k) = "]" THEN [ok |-> TRUE, val |-> acc, next |-> k + 1]
    ELSE Fail

ItemRead(t, n, acc) ==
    IF ~n.ok THEN Fail ELSE ItemEnd(t, SkipWs(t, n.next), Append(acc, n.val))

\* The items of an array, from the first one to the closing bracket.
ScanItems(t, i, acc) == ItemRead(t, ScanInt(t, i), acc)

ArrayBody(t, j) ==
    IF At(t, j) = "]" THEN [ok |-> TRUE, val |-> <<>>, next |-> j + 1]
    ELSE ScanItems(t, j, <<>>)

ScanArray(t, i) ==
    IF At(t, i) # "[" THEN Fail ELSE ArrayBody(t, SkipWs(t, i + 1))

RECURSIVE ScanMembers(_, _, _)
\* After a member and the whitespace behind it: a comma or the closing brace.
MemberEnd(t, k, acc) ==
    IF At(t, k) = "," THEN ScanMembers(t, SkipWs(t, k + 1), acc)
    ELSE IF At(t, k) = "}" THEN [ok |-> TRUE, val |-> acc, next |-> k + 1]
    ELSE Fail

\* A key that occurs again replaces the earlier one.
MemberRead(t, key, v, acc) ==
    IF ~v.ok THEN Fail
    ELSE MemberEnd(t, SkipWs(t, v.next), (key :> v.val) @@ acc)

MemberColon(t, key, c, acc) ==
    IF At(t, c) # ":" THEN Fail
    ELSE MemberRead(t, key, ScanArray(t, SkipWs(t, c + 1)), acc)

MemberKey(t, key, acc) ==
    IF ~key.ok THEN Fail ELSE MemberColon(t, key.val, SkipWs(t, key.next), acc)

\* The members of an object, from the first key to the closing brace.
ScanMembers(t, i, acc) ==
    IF At(t, i) # DQ THEN Fail ELSE MemberKey(t, ScanString(t, i + 1, <<>>), acc)

ObjectBody(t, j) ==
    IF At(t, j) = "}" THEN [ok |-> TRUE, val |-> <<>>, next |-> j + 1]
    ELSE ScanMembers(t, j, <<>>)

ScanObject(t, i) ==
    IF At(t, i) # "{" THEN Fail ELSE ObjectBody(t, SkipWs(t, i + 1))

\* Only whitespace may follow the document.
Document(t, v) ==
    IF v.ok /\ SkipWs(t, v.next) = Len(t) + 1 THEN Ok(v.val)
    ELSE Raise("JSONDecodeError")

JsonLoad(t) == Document(t, ScanObject(t, SkipWs(t, 1)))

\* ------------------------------------------------------------ the dataset
X == <<"x">>
Y == <<"y">>
Q == <<"q", DQ>>
Ids == {X, Y, Q}
SplitA == <<"a">>
SplitB == <<"b">>
SplitNames == {SplitA, SplitB}
\* JPEGImages/<id>.jpg, SegmentationClass/<id>.png, SegmentationObject/<id>.png
Kinds == {"image", "cat", "mask"}
AllFiles == Kinds \X Ids

\* Python's seq[i], for 0 <= i < len(seq).
Item(seq, i) == seq[i + 1]

RECURSIVE Lines(_, _)
\* The lines of the manifests of the splits, in the order the loops read them.
Lines(split, mf) ==
    IF split = <<>> THEN <<>> ELSE mf[Head(split)] \o Lines(Tail(split), mf)

\* The three asserts on os.path.isfile, with the mask file left unchecked.
FilesExistNoMask(pr, line) == \A k \in Kinds \ {"mask"} : <<k, line>> \in pr

\* The three asserts on os.path.isfile for one manifest line.
FilesExist(pr, line) == \A k \in Kinds : <<k, line>> \in pr

RECURSIVE Asserted(_, _, _)
\* The loop over the lines: im_ids grows until a file is missing.
Asserted(lines, pr, im_ids) ==
    IF lines = <<>> THEN [ok |-> TRUE, val |-> im_ids, exc |-> ""]
    ELSE IF FilesExist(pr, Head(lines))
         THEN Asserted(Tail(lines), pr, Append(im_ids, Head(lines)))
         ELSE [ok |-> FALSE, val |-> im_ids, exc |-> "AssertionError"]

\* open() of the manifest of each split, then the loop over its lines.
LoadSplits(split, mf, pr) ==
    IF \E i \in DOMAIN split : split[i] \notin DOMAIN mf
    THEN Raise("FileNotFoundError")
    ELSE Asserted(Lines(split, mf), pr, <<>>)

RECURSIVE SeqOf(_)
SeqOf(S) ==
    IF S = {} THEN <<>>
    ELSE LET x == CHOOSE y \in S : TRUE IN <<x>> \o SeqOf(S \ {x})

\* The comparison of the sorted keys of the loaded catalog with the sorted im_ids.
KeysMatch(d, im_ids) ==
    IF ~d.ok
    THEN [existed |-> TRUE, loaded |-> FALSE, obj_dict |-> <<>>, ret |-> FALSE,
          exc |-> d.exc]
    ELSE [existed |-> TRUE, loaded |-> TRUE, obj_dict |-> d.val,
          ret |-> Sorted(SeqOf(DOMAIN d.val)) = Sorted(im_ids), exc |-> ""]

\* _check_preprocess: ret is what it returns; exc is set when json.load raises.
CheckPreprocess(fs, path, im_ids) ==
    IF path \notin DOMAIN fs
    THEN [existed |-> FALSE, loaded |-> FALSE, obj_dict |-> <<>>, ret |-> FALSE, exc |-> ""]
    ELSE KeysMatch(JsonLoad(fs[path]), im_ids)

RECURSIVE BuildFrom(_, _, _, _, _)
\* One pass of the loop over the images: obj_dict[im_ids[ii]] = _cat_ids.
BuildOne(ii, im_ids, rs, area_thres, obj_dict, c) ==
    IF ~c.ok THEN [ok |-> FALSE, val |-> obj_dict, built |-> ii - 1, exc |-> c.exc]
    ELSE BuildFrom(ii + 1, im_ids, rs, area_thres, (im_ids[ii] :> c.val) @@ obj_dict)

\* The loop over the images: obj_dict grows until the builder raises.
BuildFrom(ii, im_ids, rs, area_thres, obj_dict) ==
    IF ii > Len(im_ids) THEN [ok |-> TRUE, val |-> obj_dict, built |-> ii - 1, exc |-> ""]
    ELSE BuildOne(ii, im_ids, rs, area_thres, obj_dict,
                  CatIds(rs[im_ids[ii]].mask, rs[im_ids[ii]].cats, area_thres))

\* The with block: open(..., 'w') empties the file before im_ids[0] is read.
WriteCache(im_ids, fs, path, b) ==
    IF ~b.ok
    THEN [obj_dict |-> b.val, built |-> b.built, files |-> fs, wrote |-> FALSE, exc |-> b.exc]
    ELSE IF im_ids = <<>>
    THEN [obj_dict |-> b.val, built |-> b.built, files |-> (path :> <<>>) @@ fs,
          wrote |-> FALSE, exc |-> "IndexError"]
    ELSE [obj_dict |-> b.val, built |-> b.built,
          files |-> (path :> CacheText(im_ids, b.val)) @@ fs, wrote |-> TRUE, exc |-> ""]

\* _preprocess
Preprocess(im_ids, rs, area_thres, fs, path) ==
    WriteCache(im_ids, fs, path, BuildFrom(1, im_ids, rs, area_thres, <<>>))

\* The test on a catalog entry, with the sentinel let through.
KeptAll(c) == TRUE

\* if self.obj_dict[self.im_ids[ii]][jj] != -1
Kept(c) == c # -1

RECURSIVE ValidFrom(_, _, _)
\* The inner loop over jj: the [ii, jj] appended for one image.
ValidFrom(ii, jj, l) ==
    IF jj >= Len(l) THEN <<>>
    ELSE (IF Kept(Item(l, jj)) THEN <<(<<ii, jj>>)>> ELSE <<>>) \o ValidFrom(ii, jj + 1, l)

RECURSIVE ObjListFrom(_, _, _, _, _)
\* One pass of the outer loop: flag is set when the image appended an entry.
ObjListOne(ii, im_ids, obj_dict, obj_list, num_images, mine) ==
    ObjListFrom(ii + 1, im_ids, obj_dict, obj_list \o mine,
                IF mine # <<>> THEN num_images + 1 ELSE num_images)

\* The outer loop over ii: obj_list and num_images.
ObjListFrom(ii, im_ids, obj_dict, obj_list, num_images) ==
    IF ii >= Len(im_ids) THEN [obj_list |-> obj_list, num_images |-> num_images]
    ELSE ObjListOne(ii, im_ids, obj_dict, obj_list, num_images,
                    ValidFrom(ii, 0, obj_dict[Item(im_ids, ii)]))

ObjList(im_ids, obj_dict) == ObjListFrom(0, im_ids, obj_dict, <<>>, 0)

\* ------------------------------------------------------- Sample Assembler
Zeros(n) == [p \in 1..n |-> 0]
\* The mask assigned instead of or-ed.
OrEqAssign(m, tmp, ii) == [p \in DOMAIN tmp |-> IF tmp[p] = ii THEN 1 ELSE 0]

\* numpy.logical_or(m, _tmp == ii)
OrEq(m, tmp, ii) == [p \in DOMAIN tmp |-> IF m[p] # 0 \/ tmp[p] = ii THEN 1 ELSE 0]

RECURSIVE Distractors(_, _, _, _, _, _, _)
\* The loop over ii = 1 .. max(_tmp).
Distractors(ii, top, tmp, l, obj_ii, other_same_class, other_classes) ==
    IF ii > top
    THEN [ok |-> TRUE, other_same_class |-> other_same_class,
          other_classes |-> other_classes, exc |-> ""]
    ELSE IF ii - 1 >= Len(l)
    THEN [ok |-> FALSE, other_same_class |-> other_same_class,
          other_classes |-> other_classes, exc |-> "IndexError"]
    ELSE LET obj_cat == Item(l, obj_ii)
             ii_cat == Item(l, ii - 1)
         IN  IF obj_cat = ii_cat /\ ii # obj_ii + 1
             THEN Distractors(ii + 1, top, tmp, l, obj_ii,
                              OrEq(other_same_class, tmp, ii), other_classes)
             ELSE IF ii # obj_ii + 1
             THEN Distractors(ii + 1, top, tmp, l, obj_ii,
                              other_same_class, OrEq(other_classes, tmp, ii))
             ELSE Distractors(ii + 1, top, tmp, l, obj_ii, other_same_class, other_classes)

\* The tuple returned in per-object mode, once the loop has run.
PerObject(index, obj_ii, tmp, void_pixels, background, d) ==
    IF ~d.ok THEN Raise(d.exc)
    ELSE Ok([index |-> index,
             target |-> [p \in DOMAIN tmp |-> IF tmp[p] = obj_ii + 1 THEN 1 ELSE 0],
             void_pixels |-> void_pixels,
             other_classes |-> d.other_classes,
             other_same_class |-> d.other_same_class,
             background |-> background])

\* The two modes, on the raster with its void pixels set to 0.
Masks(default, index, obj_ii, l, tmp, void_pixels, background) ==
    IF default
    THEN Ok([index |-> index, target |-> tmp, void_pixels |-> void_pixels,
             other_classes |-> Zeros(Len(tmp)), other_same_class |-> Zeros(Len(tmp)),
             background |-> background])
    ELSE PerObject(index, obj_ii, tmp, void_pixels, background,
                   Distractors(1, Max(Unique(tmp)), tmp, l, obj_ii,
                               Zeros(Len(tmp)), Zeros(Len(tmp))))

\* _tmp, _void_pixels and _background of the instance raster mask.
Target(default, index, obj_ii, l, mask) ==
    Masks(default, index, obj_ii, l,
          [p \in DOMAIN mask |-> IF mask[p] = 255 THEN 0 ELSE mask[p]],
          [p \in DOMAIN mask |-> IF mask[p] = 255 THEN 1 ELSE 0],
          [p \in DOMAIN mask |-> IF mask[p] = 0 THEN 1 ELSE 0])

\* _make_img_gt_point_pair(index) on the object o, without the image array.
MakePair(o, rs, index) ==
    IF index >= Len(o.obj_list) THEN Raise("IndexError")
    ELSE Target(o.default, index, Item(o.obj_list, index)[2],
                o.obj_dict[Item(o.im_ids, Item(o.obj_list, index)[1])],
                rs[Item(o.im_ids, Item(o.obj_list, index)[1])].mask)

\* ------------------------------------------------------------ __init__
NoDataset ==
    [pc |-> "none", exc |-> "", split |-> <<>>, obj_list_file |-> <<>>, area_thres |-> 0,
     default |-> FALSE, retname |-> TRUE, im_ids |-> <<>>, has |-> {}, obj_dict |-> <<>>,
     obj_list |-> <<>>, num_images |-> 0]

\* Nothing constructed yet.  stage is the statement group __init__ reached
\* last; touched says that it changed a cache file; persisted says that some
\* construction so far wrote the whole cache file, persisted_before that one
\* before the latest did.
NoRun ==
    [stage |-> "none", forced |-> FALSE, existed |-> FALSE, loaded |-> FALSE,
     valid |-> FALSE, preprocessed |-> FALSE, built |-> 0, wrote |-> FALSE,
     touched |-> FALSE, persisted_before |-> FALSE, persisted |-> FALSE]

\* The end of __init__: obj_list is built, _make_img_gt_point_pair(1) is called.
Listed(o, r, rs, fs, ol) ==
    [self |-> [o EXCEPT !.has = {"obj_dict", "obj_list"}, !.obj_list = ol.obj_list,
                        !.num_images = ol.num_images],
     files |-> fs, run |-> r, rs |-> rs]

Paired(n, mp) ==
    [self |-> [n.self EXCEPT !.pc = IF mp.ok THEN "done" ELSE "failed", !.exc = mp.exc],
     files |-> n.files,
     run |-> [n.run EXCEPT !.stage = IF mp.ok THEN "done" ELSE "pair"]]

Finish(n) == Paired(n, MakePair(n.self, n.rs, 1))

\* After the catalog is there (pp: loaded, or rebuilt by _preprocess).
Cataloged(o, r, rs, again, before, pp) ==
    IF pp.exc # ""
    THEN [self |-> [o EXCEPT !.exc = pp.exc, !.obj_dict = pp.obj_dict, !.has = {"obj_dict"}],
          files |-> pp.files,
          run |-> [r EXCEPT !.stage = "preprocess", !.preprocessed = again,
                            !.built = pp.built, !.wrote = pp.wrote]]
    ELSE Finish(Listed([o EXCEPT !.obj_dict = pp.obj_dict, !.has = {"obj_dict"}],
                       [r EXCEPT !.stage = IF again THEN "preprocess" ELSE "check",
                                 !.preprocessed = again, !.built = pp.built,
                                 !.wrote = pp.wrote, !.persisted = before \/ pp.wrote],
                       rs, pp.files, ObjList(o.im_ids, pp.obj_dict)))

\* if (not self._check_preprocess()) or preprocess: self._preprocess()
Checked(o, r, a, preprocess, rs, fs, before, chk) ==
    IF chk.exc # ""
    THEN [self |-> [o EXCEPT !.exc = chk.exc], files |-> fs,
          run |-> [r EXCEPT !.stage = "check", !.existed = TRUE]]
    ELSE Cataloged([o EXCEPT !.obj_dict = chk.obj_dict,
                             !.has = IF chk.loaded THEN {"obj_dict"} ELSE {}],
                   [r EXCEPT !.stage = "check", !.existed = chk.existed,
                             !.loaded = chk.loaded, !.valid = chk.ret],
                   rs, ~chk.ret \/ preprocess, before,
                   IF ~chk.ret \/ preprocess
                   THEN Preprocess(o.im_ids, rs, a.area_thres, fs, o.obj_list_file)
                   ELSE [obj_dict |-> chk.obj_dict, built |-> 0, files |-> fs,
                         wrote |-> FALSE, exc |-> ""])

\* After the loops over the splits and their lines.
Loaded(o, r, a, preprocess, rs, fs, before, ld) ==
    IF ~ld.ok
    THEN [self |-> [o EXCEPT !.exc = ld.exc, !.im_ids = ld.val], files |-> fs, run |-> r]
    ELSE Checked([o EXCEPT !.im_ids = ld.val], r, a, preprocess, rs, fs, before,
                 CheckPreprocess(fs, o.obj_list_file, ld.val))

\* PascalVocDataset(split=a.split, area_thres=a.area_thres, preprocess=preprocess,
\* default=a.default, retname=a.retname) on the files mf, pr, rs, fs: the object
\* as __init__ leaves it (pc "done", or "failed" with the exception raised),
\* the cache files afterwards, and the trace.
New(a, preprocess, mf, pr, rs, fs, before) ==
    Loaded([NoDataset EXCEPT !.pc = "failed", !.split = SplitOf(a.split),
                             !.obj_list_file = ObjListFile(a.split, a.area_thres),
                             !.area_thres = a.area_thres, !.default = a.default,
                             !.retname = a.retname],
           [NoRun EXCEPT !.stage = "splits", !.forced = preprocess,
                         !.persisted_before = before, !.persisted = before],
           a, preprocess, rs, fs, before,
           LoadSplits(SplitOf(a.split), mf, pr))

NoPair ==
    [index |-> -1, target |-> <<>>, void_pixels |-> <<>>, other_classes |-> <<>>,
     other_same_class |-> <<>>, background |-> <<>>]
NoSample == [gt |-> <<>>, void_pixels |-> <<>>, meta |-> <<>>]
NoProbe == [c1 |-> <<>>, c2 |-> <<>>, f1 |-> <<>>, f2 |-> <<>>, derived |-> FALSE]

\* --------------------------------------------------------------- actions
\* dataset = PascalVocDataset(..., preprocess=preprocess)
Constructed(r) ==
    /\ self' = r.self
    /\ files' = r.files
    /\ run' = [r.run EXCEPT !.touched = (r.files # files)]

Construct(preprocess) ==
    /\ Constructed(New(args, preprocess, manifest, present, raster, files, run.persisted))
    /\ pair' = NoPair
    /\ sample' = NoSample
    /\ UNCHANGED <<args, manifest, present, raster, probe>>

\* dataset[index]
Returned(r, im_ii, obj_ii) ==
    /\ r.ok
    /\ pair' = r.val
    /\ sample' = [gt |-> r.val.target, void_pixels |-> r.val.void_pixels,
                  meta |-> IF self.retname
                           THEN [image |-> Item(self.im_ids, im_ii),
                                 object |-> IntToStr(obj_ii),
                                 category |->
                                     Item(self.obj_dict[Item(self.im_ids, im_ii)], obj_ii)]
                           ELSE <<>>]

GetItem(index) ==
    /\ self.pc = "done"
    /\ index \in 0..(Len(self.obj_list) - 1)
    /\ Returned(MakePair(self, raster, index),
                Item(self.obj_list, index)[1], Item(self.obj_list, index)[2])
    /\ UNCHANGED <<args, manifest, present, raster, files, self, run, probe>>

\* The cache file names of the two configurations of the probe.
Derive ==
    /\ ~probe.derived
    /\ probe' = [probe EXCEPT !.f1 = ObjListFile(probe.c1.split, probe.c1.area_thres),
                              !.f2 = ObjListFile(probe.c2.split, probe.c2.area_thres),
                              !.derived = TRUE]
    /\ UNCHANGED <<args, manifest, present, raster, files, self, run, pair, sample>>

\* ------------------------------------------------------- initial states
RECURSIVE SeqsUpTo(_, _)
SeqsUpTo(S, n) ==
    IF n = 0 THEN {<<>>}
    ELSE LET shorter == SeqsUpTo(S, n - 1) IN
         shorter \cup {Append(l, x) : l \in shorter, x \in S}

\* The rasters of the three images of the dataset-level specification.
Scene ==
    (X :> [mask |-> <<1, 1, 2, 255, 0>>, cats |-> <<5, 5, 5, 255, 0>>])
        @@ (Y :> [mask |-> <<1, 2, 2, 2, 3>>, cats |-> <<5, 15, 15, 15, 5>>])
        @@ (Q :> [mask |-> <<0, 2, 2, 255>>, cats |-> <<0, 15, 15, 255>>])

SplitArgs == {StrArg(SplitA), StrArg(SplitB), ListArg(<<SplitB, SplitA>>)}
Manifests ==
    {mf \in [SplitNames -> SeqsUpTo(Ids, MaxIds)] :
        Len(mf[SplitA]) + Len(mf[SplitB]) <= MaxIds}
\* A cache file cut short, and one that holds an empty catalog.
StaleTexts == {<<"{">>, <<"{", "}">>}

Fresh ==
    /\ self = NoDataset
    /\ run = NoRun
    /\ pair = NoPair
    /\ sample = NoSample

\* Datasets of up to MaxIds manifest lines over two splits.
Init ==
    /\ args \in [split : SplitArgs, area_thres : 0..MaxThres, default : BOOLEAN,
                 retname : {TRUE}]
    /\ manifest \in Manifests
    /\ present \in {AllFiles} \cup {AllFiles \ {<<k, X>>} : k \in Kinds}
    /\ raster = Scene
    /\ files \in {<<>>} \cup
                 {(ObjListFile(args.split, args.area_thres) :> t) : t \in StaleTexts}
    /\ Fresh
    /\ probe = NoProbe

Next ==
    \/ \E preprocess \in BOOLEAN : Construct(preprocess)
    \/ \E index \in 0..(2 * MaxIds + 2) : GetItem(index)

Spec == Init /\ [][Next]_vars

\* One image with any instance raster and any category raster. The code only
\* copies and compares categories, so the category of the first pixel is fixed.
MaskVals == {0, 1, 2, 3, 255}
CatVals == {5, 15}
CatRasters == {c \in [1..NPix -> CatVals] : c[1] = 5}

InitImage ==
    /\ args \in [split : {StrArg(SplitA)}, area_thres : (-1)..MaxThres,
                 default : {FALSE}, retname : {TRUE}]
    /\ manifest = (SplitA :> <<X>>) @@ (SplitB :> <<>>)
    /\ present = AllFiles
    /\ raster \in {(X :> [mask |-> m, cats |-> c]) @@ Scene :
                      m \in [1..NPix -> MaskVals], c \in CatRasters}
    /\ files = <<>>
    /\ Fresh
    /\ probe = NoProbe

SpecImage == InitImage /\ [][Next]_vars

\* Two configurations under one base directory.
NameChars == {"a", "_"}
PathNames == SeqsUpTo(NameChars, MaxNameLen) \ {<<>>}
PathSplits ==
    {StrArg(n) : n \in PathNames}
        \cup {ListArg(l) : l \in SeqsUpTo(PathNames, MaxSplits) \ {<<>>}}
PathThres == {0, 1, 11}
PathConfigs == [split : PathSplits, area_thres : PathThres]

InitPath ==
    /\ args = [split |-> StrArg(SplitA), area_thres |-> 0, default |-> FALSE,
               retname |-> TRUE]
    /\ manifest = (SplitA :> <<>>) @@ (SplitB :> <<>>)
    /\ present = AllFiles
    /\ raster = Scene
    /\ files = <<>>
    /\ Fresh
    /\ probe \in [c1 : PathConfigs, c2 : PathConfigs, f1 : {<<>>}, f2 : {<<>>},
                  derived : {FALSE}]

NextPath == Derive

SpecPath == InitPath /\ [][NextPath]_vars

\* ------------------------------------------------------------ properties
\* The lines of the manifests of the configured splits.
Configured == Lines(SplitOf(args.split), manifest)
Constructing == self.pc # "none"
NoSentinel(l) == {jj \in DOMAIN l : l[jj] # -1}

RECURSIVE ValidTotal(_, _)
\* Entries other than -1 in the lists of the loaded identifiers.
ValidTotal(ids, d) ==
    IF ids = <<>> THEN 0
    ELSE Cardinality(NoSentinel(d[Head(ids)])) + ValidTotal(Tail(ids), d)

RECURSIVE EntryTotal(_, _)
EntryTotal(ids, d) ==
    IF ids = <<>> THEN 0 ELSE Len(d[Head(ids)]) + EntryTotal(Tail(ids), d)

\* C1: once the Object List is built, its length (size()) is the number of
\* entries other than -1 in the Instance Category Lists of the loaded image
\* identifiers, each counted once per manifest line that loads it, and is at
\* most the number of all entries of those lists.
C1_SizeCountsValidEntries ==
    "obj_list" \in self.has =>
        /\ Len(self.obj_list) = ValidTotal(self.im_ids, self.obj_dict)
        /\ Len(self.obj_list) <= EntryTotal(self.im_ids, self.obj_dict)

\* A completed construction that took a catalog with sentinel entries from the cache.
C1_Witness ==
    /\ self.pc = "done"
    /\ run.valid /\ ~run.preprocessed
    /\ Len(self.im_ids) = 2
    /\ Len(self.obj_list) < EntryTotal(self.im_ids, self.obj_dict)

\* C2: the catalog that _preprocess built and wrote is the catalog that
\* json.load reads back from the file it wrote.
C2_CacheRoundTrip ==
    run.wrote =>
        /\ JsonLoad(files[self.obj_list_file]).ok
        /\ JsonLoad(files[self.obj_list_file]).val = self.obj_dict

NoRepeat(l) == \A i, j \in DOMAIN l : l[i] = l[j] => i = j

\* C3: after a construction that built and persisted the catalog, a later
\* construction with the same arguments and no force flag does not run
\* _preprocess again, whatever the list of splits (each manifest listing an
\* identifier once).
C3_BuildOnce ==
    (/\ Constructing
     /\ \A n \in SplitNames : NoRepeat(manifest[n])
     /\ run.persisted_before
     /\ ~run.forced) => ~run.preprocessed

\* C4: a cache file that exists and cannot be parsed is treated like an
\* absent one: the catalog is rebuilt.
C4_MalformedCacheRebuilds ==
    (Constructing /\ run.existed /\ ~run.loaded) =>
        /\ self.exc # "JSONDecodeError"
        /\ run.preprocessed

NameSet(c) == {c.split.names[i] : i \in DOMAIN c.split.names}

\* C5: two configurations that differ in the set of split names or in the
\* threshold have different cache file names.
C5_PathInjective ==
    (/\ probe.derived
     /\ \/ NameSet(probe.c1) # NameSet(probe.c2)
        \/ probe.c1.area_thres # probe.c2.area_thres) => probe.f1 # probe.f2

\* An image of the data set whose instances the area filter excluded, all of them.
AllExcluded ==
    \E i \in DOMAIN self.im_ids :
        /\ self.obj_dict[self.im_ids[i]] # <<>>
        /\ NoSentinel(self.obj_dict[self.im_ids[i]]) = {}

\* C6: construction completes when the area filter excluded every instance
\* of an image, also when that leaves the Object List with no entry or one.
C6_ExclusionIsNoError ==
    (/\ "obj_list" \in self.has
     /\ AllExcluded
     /\ Len(self.obj_list) <= 1) => self.pc = "done"

MissingInput ==
    \E i \in DOMAIN Configured, k \in Kinds : <<k, Configured[i]>> \notin present

\* C7: with a file of a configured identifier missing, construction fails on
\* the assert, before the cache file is looked at, before the builder runs on
\* an image and before a cache file is changed; there is no catalog and no
\* Object List.
C7_FailFast ==
    (Constructing /\ MissingInput) =>
        /\ self.pc = "failed" /\ self.exc = "AssertionError"
        /\ run.stage = "splits"
        /\ ~run.existed /\ ~run.loaded
        /\ ~run.preprocessed /\ run.built = 0
        /\ ~run.wrote /\ ~run.touched
        /\ self.has = {}

\* A failed construction that left a stale cache file alone.
C7_Witness ==
    /\ Constructing /\ MissingInput
    /\ files # <<>>
    /\ Len(self.im_ids) = 1

\* The image of the image-level specification.
R == raster[X].mask
C == raster[X].cats
Built == run.preprocessed /\ X \in DOMAIN self.obj_dict
Pixels(j) == {p \in DOMAIN R : R[p] = j}
Least(S) == CHOOSE p \in S : \A q \in S : p <= q
\* Entry j of the Instance Category List by the rule.
Ruled(j) ==
    IF Pixels(j) # {} /\ Cardinality(Pixels(j)) > args.area_thres
    THEN C[Least(Pixels(j))]
    ELSE -1
ByTheRule ==
    /\ X \in DOMAIN self.obj_dict
    /\ \A j \in 1..Max(Unique(R) \ {255}) :
          /\ j <= Len(self.obj_dict[X])
          /\ self.obj_dict[X][j] = Ruled(j)

\* C8: for every integer threshold t and every raster with a pixel other
\* than 255, the builder does not fail and entry j of the list is C at the
\* first pixel of instance j when it has more than t pixels, and -1 otherwise
\* (t pixels, or no pixel at all).
C8_RuleAnyThreshold ==
    (/\ Constructing
     /\ Unique(R) # {255}) => ByTheRule

\* C9 as stated: the list has one entry per distinct pixel value other than
\* 0 and 255.
C9_LengthIsDistinctCount ==
    Built => Len(self.obj_dict[X]) = Cardinality(Unique(R) \ {0, 255})

\* C9: the list that _preprocess stores has as many entries as the largest
\* pixel value other than 255.
C9_LengthIsLargestId ==
    Built => Len(self.obj_dict[X]) = Max(Unique(R) \ {255})

\* A raster whose instance ids are not contiguous.
C9_Witness ==
    /\ Built
    /\ 1 \notin Unique(R)
    /\ 3 \in Unique(R)
    /\ 255 \in Unique(R)

\* The raster value of pixel p of mask with the void pixels set to 0.
VoidZeroed(mask, p) == IF mask[p] = 255 THEN 0 ELSE mask[p]
PairImage == Item(self.im_ids, Item(self.obj_list, pair.index)[1])
PairObject == Item(self.obj_list, pair.index)[2]

\* C10: in per-object mode a pixel of another instance k is 1 in the
\* same-class mask alone when the catalog gives k the category of the target,
\* and 1 in the other-class mask alone when it gives another; the pixels of the
\* target, the background and the void pixels are 0 in both.
C10_Distractors ==
    (pair.index >= 0 /\ ~self.default) =>
        \A p \in DOMAIN raster[PairImage].mask :
            LET k == VoidZeroed(raster[PairImage].mask, p)
                l == self.obj_dict[PairImage]
            IN  IF k # 0 /\ k # PairObject + 1
                THEN IF l[k] = l[PairObject + 1]
                     THEN pair.other_same_class[p] = 1 /\ pair.other_classes[p] = 0
                     ELSE pair.other_classes[p] = 1 /\ pair.other_same_class[p] = 0
                ELSE pair.other_same_class[p] = 0 /\ pair.other_classes[p] = 0

\* A sample with a same-class and an other-class distractor beside the target.
C10_Witness ==
    /\ pair.index >= 0 /\ ~self.default
    /\ \E p \in DOMAIN pair.target : pair.other_same_class[p] = 1
    /\ \E p \in DOMAIN pair.target : pair.other_classes[p] = 1
    /\ \E p \in DOMAIN pair.target : pair.target[p] = 1

====
